---------------------------- MODULE Spec2Model ----------------------------
(***************************************************************************)
(* libstd: the printf family of src/stream/stdio.c over its ring buffer    *)
(* and rb_lock, called from the main thread and from interrupt handlers.   *)
(*                                                                         *)
(* Characters are their ASCII codes, so that the C arithmetic on them      *)
(* (digit + '0', c - '0', c >= '0' && c <= '9', the unsigned char cast)    *)
(* is kept.  size_t and uint32_t are SIZE_BITS wide instead of 32 (TLC's   *)
(* integers are 32-bit); BUF_MAX is scaled down from the header's value.   *)
(***************************************************************************)
EXTENDS Integers, Sequences, FiniteSets, TLC

(***************************************************************************)
(* Bounds of the model.                                                    *)
(***************************************************************************)
\* ring buffer length used by the index arithmetic (stream_priv.h, scaled)
BUF_MAX == 4
\* bytes of every destination buffer handed to snprintf / sprintf
DstCap == 4
\* width of size_t / uint32_t in the model
SIZE_BITS == 16
\* width of uint64_t in the model
U64_BITS == 20

\* storage of the ring buffer: char buf[BUF_SIZE], one more than BUF_MAX
BUF_SIZE == BUF_MAX + 1
SizeMod == 2 ^ SIZE_BITS
\* (size_t)-1
SIZE_MAX == SizeMod - 1
\* (int)x of a size_t x
ToInt(x) == IF x >= SizeMod \div 2 THEN x - SizeMod ELSE x
\* (size_t)x of an int x
ToSize(x) == x % SizeMod
\* (uint8_t)x, (unsigned char)x
ToU8(x) == x % 256
\* (uint32_t)x
ToU32(x) == x % SizeMod
\* (uint64_t)x: what get_number_len() and ring_buffer_write_number() receive
ToU64(x) == x % (2 ^ U64_BITS)
\* (short)x
ToShort(x) == ((x + 32768) % 65536) - 32768

(***************************************************************************)
(* Characters.                                                             *)
(***************************************************************************)
DigitStr == <<"0", "1", "2", "3", "4", "5", "6", "7", "8", "9">>
LowerStr == <<"a", "b", "c", "d", "e", "f", "g", "h", "i", "j", "k", "l", "m",
              "n", "o", "p", "q", "r", "s", "t", "u", "v", "w", "x", "y", "z">>
\* the ASCII code of a one-character string
Ord(c) ==
    IF c = "%" THEN 37
    ELSE IF c = "#" THEN 35
    ELSE IF c = "-" THEN 45
    ELSE IF \E k \in 1..10 : DigitStr[k] = c
         THEN 47 + (CHOOSE k \in 1..10 : DigitStr[k] = c)
    ELSE 96 + (CHOOSE k \in 1..26 : LowerStr[k] = c)
\* a C string literal, without its terminator
Str(s) == [k \in 1..Len(s) |-> Ord(s[k])]
NUL == 0

(***************************************************************************)
(* The ring buffer (struct s_ring ring_buffer) and its helpers.            *)
(***************************************************************************)
EmptyBuf == [k \in 0..(BUF_SIZE - 1) |-> NUL]

\* init_ring_buffer(): the state after do_starttask()
init_ring_buffer == [start |-> 0, end |-> 0, full |-> FALSE, buf |-> EmptyBuf]

\* ring_buffer_write_char() storing the character whether full or not
ring_buffer_write_char_overwrite(rb, c) ==
    [rb EXCEPT !.buf[rb.end] = c, !.end = (rb.end + 1) % BUF_MAX]

\* ring_buffer_write_char(c)
ring_buffer_write_char(rb, c) ==
    IF rb.full THEN rb
    ELSE LET stored == [rb EXCEPT !.buf[rb.end] = c]
         IN  IF ((rb.end + 1) % BUF_MAX) # rb.start
             THEN [stored EXCEPT !.end = (rb.end + 1) % BUF_MAX]
             ELSE [stored EXCEPT !.full = TRUE]

\* ring_buffer_write_digit(digit)
ring_buffer_write_digit(rb, digit) ==
    IF digit < 10 THEN ring_buffer_write_char(rb, ToU8(digit + Ord("0")))
    ELSE IF digit <= 15
         THEN ring_buffer_write_char(rb, ToU8(digit + (Ord("a") - 10)))
    ELSE rb

RECURSIVE WriteStringFrom(_, _, _, _)
WriteStringFrom(rb, str, len, i) ==
    IF i < len /\ i < Len(str) /\ str[i + 1] # NUL
    THEN WriteStringFrom(ring_buffer_write_char(rb, str[i + 1]), str, len, i + 1)
    ELSE rb

\* ring_buffer_write_string(str, len); str is never NULL here
ring_buffer_write_string(rb, str, len) == WriteStringFrom(rb, str, len, 0)

\* the digits of value in base, least significant first (number[] of
\* ring_buffer_write_number)
RECURSIVE NumberDigits(_, _)
NumberDigits(value, base) ==
    IF value \div base # 0
    THEN <<value % base>> \o NumberDigits(value \div base, base)
    ELSE <<value % base>>

RECURSIVE WriteDigitsDown(_, _, _)
WriteDigitsDown(rb, number, index) ==
    IF index >= 0
    THEN WriteDigitsDown(ring_buffer_write_digit(rb, number[index + 1]),
                         number, index - 1)
    ELSE rb

\* ring_buffer_write_number(value, base)
ring_buffer_write_number(rb, value, base) ==
    LET number == NumberDigits(value, base)
    IN  WriteDigitsDown(rb, number, Len(number) - 1)

\* print_and_reset_buffer(): the sys_log() calls it makes, in order
SysLogCalls(rb) ==
    IF rb.end > rb.start
    THEN << [k \in 1..(rb.end - rb.start) |-> rb.buf[rb.start + k - 1]] >>
    ELSE IF rb.end < rb.start
    THEN << [k \in 1..(BUF_SIZE - rb.start) |-> rb.buf[rb.start + k - 1]],
            [k \in 1..rb.end |-> rb.buf[k - 1]] >>
    ELSE << >>

\* print_and_reset_buffer(): the ring buffer it leaves
print_and_reset_buffer(rb) == init_ring_buffer

\* ring_buffer_rewind(len): the ring buffer it leaves
ring_buffer_rewind(rb, len) ==
    IF len >= BUF_MAX THEN rb
    ELSE IF rb.end >= len
    THEN [rb EXCEPT !.buf = [k \in 0..(BUF_SIZE - 1) |->
                                IF k >= rb.end - len /\ k < rb.end
                                THEN NUL ELSE rb.buf[k]],
                    !.end = rb.end - len]
    ELSE [rb EXCEPT !.buf = [k \in 0..(BUF_SIZE - 1) |->
                                IF k < rb.end
                                   \/ (k >= BUF_MAX - len + rb.end /\ k < BUF_MAX)
                                THEN NUL ELSE rb.buf[k]],
                    !.end = BUF_MAX - len + rb.end]

\* ring_buffer_rewind() returning len whatever it did
ring_buffer_rewind_ret_len(len) == len

\* ring_buffer_rewind(len): its result
ring_buffer_rewind_ret(len) == IF len >= BUF_MAX THEN 0 ELSE len

\* get_number_len() counting decimal digits whatever the base
RECURSIVE get_number_len_decimal(_, _)
get_number_len_decimal(value, base) ==
    IF value \div 10 # 0 THEN ToU8(1 + get_number_len_decimal(value \div 10, base))
    ELSE 1

\* get_number_len(value, base)
RECURSIVE get_number_len(_, _)
get_number_len(value, base) ==
    IF value \div base # 0 THEN ToU8(1 + get_number_len(value \div base, base))
    ELSE 1

(***************************************************************************)
(* The printf lexer.  A format string is the memory image it lives in: the *)
(* characters, the terminator, and the bytes that follow it in memory.     *)
(***************************************************************************)
\* fmt[i] of the C code
At(fmt, i) == IF i < Len(fmt) THEN fmt[i + 1] ELSE NUL

\* strlen(str)
RECURSIVE strlen_from(_, _)
strlen_from(str, i) == IF At(str, i) # NUL THEN strlen_from(str, i + 1) ELSE i
strlen(str) == strlen_from(str, 0)

\* fs_properties_t at the start of print_handle_format_string()
fs_prop_init ==
    [attr_0len |-> FALSE, attr_size |-> FALSE, size |-> 0,
     started |-> FALSE, consumed |-> 0]

\* for (uint32_t i = len; i < fs_prop.size; ++i) ring_buffer_write_char('0');
RECURSIVE ZeroPad(_, _, _)
ZeroPad(rb, i, size) ==
    IF i < size THEN ZeroPad(ring_buffer_write_char(rb, Ord("0")), i + 1, size)
    ELSE rb

\* while (fmt[consumed + 1] >= '0' && fmt[consumed + 1] <= '9') { ... }
RECURSIVE ParseSize(_, _, _)
ParseSize(fmt, base, fs) ==
    LET c == At(fmt, base + fs.consumed + 1)
    IN  IF c >= Ord("0") /\ c <= Ord("9")
        THEN ParseSize(fmt, base,
                       [fs EXCEPT !.size = ToU8((fs.size * 10) + (c - Ord("0"))),
                                  !.consumed = ToU8(fs.consumed + 1)])
        ELSE fs

\* a numeric conversion: the zero padding, then the number
NumberOut(rb, fs, value, base, padAlways) ==
    LET len == get_number_len(value, base)
        padded == IF padAlways \/ (fs.attr_size /\ fs.attr_0len)
                  THEN ZeroPad(rb, len, fs.size) ELSE rb
    IN  ring_buffer_write_number(padded, value, base)

\* the do { switch (fmt[fs_prop.consumed]) ... } while (fmt[fs_prop.consumed])
\* loop of print_handle_format_string(&fmt[base], &args, &consumed)
RECURSIVE FormatLoop(_, _, _, _, _)
FormatLoop(fmt, base, fs, args, rb) ==
    LET c == At(fmt, base + fs.consumed)
        End(f, a, r) ==
            [ret |-> 0, consumed |-> ToU8(f.consumed + 1), args |-> a, rb |-> r]
        Err == [ret |-> 1, consumed |-> 0, args |-> args, rb |-> rb]
        Break(f) ==
            LET g == [f EXCEPT !.consumed = ToU8(f.consumed + 1)]
            IN  IF At(fmt, base + g.consumed) # NUL
                THEN FormatLoop(fmt, base, g, args, rb)
                ELSE End(g, args, rb)
        val == Head(args)
        lmode == IF At(fmt, base + fs.consumed + 1) = Ord("l")
                 THEN [fs EXCEPT !.consumed = ToU8(fs.consumed + 1)] ELSE fs
        hmode == IF At(fmt, base + fs.consumed + 1) = Ord("h")
                 THEN [fs EXCEPT !.consumed = ToU8(fs.consumed + 1)] ELSE fs
    IN  CASE c = Ord("%") ->
                IF ~fs.started THEN Break([fs EXCEPT !.started = TRUE])
                ELSE IF fs.consumed = 1
                     THEN End(fs, args, ring_buffer_write_char(rb, Ord("%")))
                ELSE Err
          [] c = Ord("0") ->
                IF ~fs.started THEN Err
                ELSE LET f == ParseSize(fmt, base, [fs EXCEPT !.attr_0len = TRUE])
                     IN  Break([f EXCEPT !.attr_size = (f.size # 0) \/ f.attr_size])
          [] c = Ord("d") \/ c = Ord("i") ->
                IF ~fs.started THEN Err
                ELSE End(fs, Tail(args), NumberOut(rb, fs, ToU64(val), 10, FALSE))
          [] c = Ord("l") ->
                \* long and long long: printed at once, in decimal
                IF ~fs.started THEN Err
                ELSE End(lmode, Tail(args), NumberOut(rb, fs, ToU64(val), 10, FALSE))
          [] c = Ord("h") ->
                IF ~fs.started THEN Err
                ELSE End(hmode, Tail(args),
                         NumberOut(rb, fs,
                                   IF hmode.consumed = fs.consumed
                                   THEN ToU64(ToShort(val)) ELSE ToU8(val),
                                   10, FALSE))
          [] c = Ord("u") ->
                IF ~fs.started THEN Err
                ELSE End(fs, Tail(args), NumberOut(rb, fs, ToU32(val), 10, FALSE))
          [] c = Ord("p") ->
                IF ~fs.started THEN Err
                ELSE End(fs, Tail(args),
                         NumberOut(ring_buffer_write_string(rb, Str(<<"0", "x">>), 2),
                                   fs, ToU32(val), 16, TRUE))
          [] c = Ord("x") ->
                IF ~fs.started THEN Err
                ELSE End(fs, Tail(args), NumberOut(rb, fs, ToU32(val), 16, FALSE))
          [] c = Ord("o") ->
                IF ~fs.started THEN Err
                ELSE End(fs, Tail(args), NumberOut(rb, fs, ToU32(val), 8, FALSE))
          [] c = Ord("s") ->
                IF ~fs.started \/ (fs.attr_size /\ fs.attr_0len) THEN Err
                ELSE End(fs, Tail(args),
                         ring_buffer_write_string(rb, val, strlen(val)))
          [] c = Ord("c") ->
                IF ~fs.started \/ (fs.attr_size /\ fs.attr_0len) THEN Err
                ELSE End(fs, Tail(args), ring_buffer_write_char(rb, ToU8(val)))
          [] OTHER -> Err

\* print_handle_format_string(&fmt[base], &args, &consumed)
print_handle_format_string(fmt, base, args, rb) ==
    FormatLoop(fmt, base, fs_prop_init, args, rb)

\* the while (fmt[i]) loop of print()
RECURSIVE PrintLoop(_, _, _, _, _)
PrintLoop(fmt, i, consumed, args, rb) ==
    IF At(fmt, i) = NUL
    THEN [res |-> i, consumed |-> consumed, rb |-> rb]
    ELSE IF At(fmt, i) = Ord("%")
    THEN LET d == print_handle_format_string(fmt, i, args, rb)
         IN  IF d.ret # 0
             THEN [res |-> -1, consumed |-> d.consumed, rb |-> d.rb]
             ELSE PrintLoop(fmt, i + d.consumed, d.consumed, d.args, d.rb)
    ELSE PrintLoop(fmt, i + 1, consumed, args, ring_buffer_write_char(rb, At(fmt, i)))

\* print() undoing its writes when a directive fails
print_rollback(fmt, args, rb) ==
    LET r == PrintLoop(fmt, 0, 0, args, rb)
    IN  IF r.res = -1 THEN [r EXCEPT !.rb = rb] ELSE r

\* print(fmt, args): its result, the ring buffer it leaves, and the last
\* value its local `consumed' received
print(fmt, args, rb) == PrintLoop(fmt, 0, 0, args, rb)

(***************************************************************************)
(* The callers.  The main thread and the interrupt handlers of the task    *)
(* share ring_buffer and rb_lock; a handler preempts every context of      *)
(* lower priority and runs to completion before that context resumes.      *)
(***************************************************************************)
Contexts == {"main", "isr1", "isr2"}
Prio == [main |-> 0, isr1 |-> 1, isr2 |-> 2]
\* printf() blocks: it is the main thread's; handlers use the trylock API
EntryPoints(p) ==
    IF p = "main" THEN {"printf", "snprintf", "sprintf", "aprintf", "aprintf_flush"}
    ELSE {"snprintf", "sprintf", "aprintf", "aprintf_flush"}

\* the format strings and argument lists the callers pass; mem is the
\* string, its terminator and what follows it in memory
Templates ==
    << [mem |-> Str(<<"a", "b">>), args |-> << >>],
       [mem |-> Str(<<"%", "d">>), args |-> <<123>>],
       [mem |-> Str(<<"%", "s">>), args |-> << << >> >>],
       [mem |-> Str(<<"a", "%", "z">>), args |-> << >>],
       [mem |-> Str(<<"%", "%">>), args |-> << >>] >>
\* a fmt argument: a template, or 0 for the NULL pointer
FmtArgs == 0..Len(Templates)

\* one-directive templates "%<flag><modifier><conversion>" and their argument:
\* the zero flag and width, the length modifier, the conversion, the value
Flags ==
    << [text |-> << >>, zero |-> FALSE, width |-> 0],
       [text |-> <<"0">>, zero |-> TRUE, width |-> 0],
       [text |-> <<"0", "2">>, zero |-> TRUE, width |-> 2],
       [text |-> <<"0", "3">>, zero |-> TRUE, width |-> 3],
       [text |-> <<"0", "4">>, zero |-> TRUE, width |-> 4] >>
Modifiers == << << >>, <<"l">>, <<"l", "l">>, <<"h">>, <<"h", "h">> >>
Conversions ==
    << [text |-> "d", base |-> 10], [text |-> "i", base |-> 10],
       [text |-> "u", base |-> 10], [text |-> "x", base |-> 16],
       [text |-> "o", base |-> 8] >>
Values == <<0, 7, 42, 255, 1234, -5, -42>>
DirectiveTemplates ==
    [k \in 1..(Len(Flags) * Len(Modifiers) * Len(Conversions) * Len(Values)) |->
        LET v == ((k - 1) % Len(Values)) + 1
            c == (((k - 1) \div Len(Values)) % Len(Conversions)) + 1
            m == (((k - 1) \div (Len(Values) * Len(Conversions))) % Len(Modifiers)) + 1
            f == ((k - 1) \div (Len(Values) * Len(Conversions) * Len(Modifiers))) + 1
        IN  [mem |-> Str(<<"%">> \o Flags[f].text \o Modifiers[m]
                                \o <<Conversions[c].text>>),
             args |-> <<Values[v]>>,
             flag |-> Flags[f], mod |-> Modifiers[m],
             conv |-> Conversions[c], val |-> Values[v]]]
\* the fmt arguments that are directive templates
DirectiveFmts == (Len(Templates) + 1)..(Len(Templates) + Len(DirectiveTemplates))
\* templates that end inside a directive or just after one, with the bytes
\* that follow their terminator in memory: literal characters, then the
\* directive, then the terminator and the bytes after it
Literals == << << >>, <<"a">>, <<"a", "b">> >>
Endings == << << >>, <<"%">>, <<"%", "0">>, <<"%", "0", "3">>, <<"%", "%">> >>
Beyond == << << >>, <<NUL, Ord("a")>>, <<NUL, Ord("%"), Ord("%")>> >>
EndingTemplates ==
    [k \in 1..(Len(Literals) * Len(Endings) * Len(Beyond)) |->
        LET b == ((k - 1) % Len(Beyond)) + 1
            e == (((k - 1) \div Len(Beyond)) % Len(Endings)) + 1
            l == ((k - 1) \div (Len(Beyond) * Len(Endings))) + 1
        IN  [mem |-> Str(Literals[l] \o Endings[e]) \o Beyond[b], args |-> << >>]]
\* the fmt arguments that are such templates
EndingFmts ==
    (Len(Templates) + Len(DirectiveTemplates) + 1)
        ..(Len(Templates) + Len(DirectiveTemplates) + Len(EndingTemplates))
\* the template a fmt argument points to
Template(fmt) ==
    IF fmt <= Len(Templates) THEN Templates[fmt]
    ELSE IF fmt <= Len(Templates) + Len(DirectiveTemplates)
    THEN DirectiveTemplates[fmt - Len(Templates)]
    ELSE EndingTemplates[fmt - Len(Templates) - Len(DirectiveTemplates)]
\* what a read through a NULL fmt finds at address 0, when it does not fault
LowMemory == { << >>, Str(<<"a">>) }
\* what a read outside ring_buffer.buf finds
Garbage == {NUL, Ord("#")}
\* a destination not written yet
UNSET == Ord("u")

\* the capacity given to queue_create()
QueueMax == 2
\* the nodes the allocator has
NodeMax == 3
\* the data pointers enqueued: 1..DataMax, and 0 for NULL
DataMax == 2

\* the heap cell of a struct node; 0 is the NULL pointer
FreeNode == [next |-> 0, prev |-> 0, data |-> 0, used |-> FALSE]
\* queue_create(capacity, &q): the queue it makes.  Kept for the
\* properties: order, the data of the nodes linked, oldest first
queue_create(capacity) ==
    [head |-> 0, tail |-> 0, max |-> capacity, size |-> 0, lock |-> 0,
     node |-> [k \in 1..NodeMax |-> FreeNode], order |-> << >>]

VARIABLES
    ring_buffer,    \* struct s_ring ring_buffer
    rb_lock,        \* the mutex: 0 free, 1 taken
    ctx,            \* per context: the call in progress and its locals
    queue           \* the queue_t made by queue_create(), and its nodes

vars == <<ring_buffer, rb_lock, ctx, queue>>

Idle ==
    [pc |-> "idle", fn |-> "none", fmt |-> 0, dst |-> FALSE, len |-> 0,
     pre |-> init_ring_buffer, res |-> 0, consumed |-> 0, to_copy |-> 0,
     dstbuf |-> [k \in 0..(DstCap - 1) |-> UNSET], dsthi |-> 0,
     ret |-> 0, nullread |-> FALSE, sink |-> << >>,
     busy |-> FALSE, contended |-> FALSE,
     live |-> << >>, was |-> << >>, run |-> 0, over |-> FALSE,
     err |-> "MBED_ERROR_NONE", n |-> 0, data |-> 0, out |-> 0,
     q |-> queue_create(QueueMax)]

Init ==
    /\ ring_buffer = init_ring_buffer
    /\ rb_lock = 0
    /\ ctx = [p \in Contexts |-> Idle]
    /\ queue = queue_create(QueueMax)

Faulted == \E p \in Contexts : ctx[p].pc = "fault"
\* p is the context the processor executes
Runs(p) ==
    /\ ~Faulted
    /\ \A q \in Contexts : Prio[q] > Prio[p] => ctx[q].pc = "idle"
\* p may enter a call: it is not in one, and no call is just returning
MayEnter(p, fn) ==
    /\ Runs(p)
    /\ fn \in EntryPoints(p)
    /\ ctx[p].pc = "idle"
    /\ \A q \in Contexts : ctx[q].pc # "ret"
At_(p, fn, pc) == Runs(p) /\ ctx[p].fn = fn /\ ctx[p].pc = pc

\* p has taken rb_lock and not released it
Holds(p) == ctx[p].pc \in {"drain1", "print", "drain2", "copy", "rewind", "unlock", "fault"}
\* the contexts after the trylock of p's call found the lock taken
Refused(p, call) ==
    [q \in Contexts |->
        IF q = p THEN [call EXCEPT !.pc = "ret", !.ret = -1, !.busy = TRUE]
        ELSE IF Holds(q) THEN [ctx[q] EXCEPT !.contended = TRUE]
        ELSE ctx[q]]

\* mutex_trylock(&rb_lock) succeeds
mutex_trylock(lock) == lock = 0
\* rb_lock once taken, and after mutex_unlock(&rb_lock)
mutex_taken == 1
mutex_unlock == 0

\* the call of context p as it is entered.  Kept for the properties: pre, the
\* ring buffer the call finds when it has the lock; sink, the sys_log() calls
\* it has made; nullread, that it read through a NULL fmt; busy, that its
\* trylock failed; contended, that another call's trylock failed against it
Entered(p, fn, fmt, dst, len) ==
    [Idle EXCEPT !.fn = fn, !.fmt = fmt, !.dst = dst, !.len = len,
                 !.pre = ring_buffer]

\* res = print(fmt, args) of context p; a NULL fmt is read through: the read
\* faults, or finds whatever lies at address 0
PrintStep(p, next) ==
    IF ctx[p].fmt = 0
    THEN \/ /\ ctx' = [ctx EXCEPT ![p].pc = "fault", ![p].nullread = TRUE]
            /\ UNCHANGED ring_buffer
         \/ \E low \in LowMemory :
               LET r == print(low, << >>, ring_buffer)
               IN  /\ ring_buffer' = r.rb
                   /\ ctx' = [ctx EXCEPT ![p].pc = next, ![p].res = r.res,
                                         ![p].consumed = r.consumed,
                                         ![p].nullread = TRUE]
    ELSE LET t == Template(ctx[p].fmt)
             r == print(t.mem, t.args, ring_buffer)
         IN  /\ ring_buffer' = r.rb
             /\ ctx' = [ctx EXCEPT ![p].pc = next, ![p].res = r.res,
                                   ![p].consumed = r.consumed]

(*********************************  printf  ********************************)
printf_enter(p, fmt) ==
    /\ MayEnter(p, "printf")
    /\ ctx' = [ctx EXCEPT ![p] = [Entered(p, "printf", fmt, FALSE, 0)
                                   EXCEPT !.pc = "lock", !.pre = init_ring_buffer]]
    /\ UNCHANGED <<ring_buffer, rb_lock>>
    /\ UNCHANGED queue

\* mutex_lock(&rb_lock): waits until the lock is free
printf_mutex_lock(p) ==
    /\ At_(p, "printf", "lock")
    /\ mutex_trylock(rb_lock)
    /\ rb_lock' = mutex_taken
    /\ ctx' = [ctx EXCEPT ![p].pc = "drain1", ![p].pre = ring_buffer]
    /\ UNCHANGED ring_buffer
    /\ UNCHANGED queue

printf_drain_pending(p) ==
    /\ At_(p, "printf", "drain1")
    /\ ring_buffer' = print_and_reset_buffer(ring_buffer)
    /\ ctx' = [ctx EXCEPT ![p].pc = "print",
                          ![p].sink = ctx[p].sink \o SysLogCalls(ring_buffer)]
    /\ UNCHANGED rb_lock
    /\ UNCHANGED queue

printf_print(p) ==
    /\ At_(p, "printf", "print")
    /\ PrintStep(p, "drain2")
    /\ UNCHANGED rb_lock
    /\ UNCHANGED queue

printf_drain(p) ==
    /\ At_(p, "printf", "drain2")
    /\ ring_buffer' = print_and_reset_buffer(ring_buffer)
    /\ ctx' = [ctx EXCEPT ![p].pc = "unlock",
                          ![p].sink = ctx[p].sink \o SysLogCalls(ring_buffer)]
    /\ UNCHANGED rb_lock
    /\ UNCHANGED queue

printf_unlock(p) ==
    /\ At_(p, "printf", "unlock")
    /\ rb_lock' = mutex_unlock
    /\ ctx' = [ctx EXCEPT ![p].pc = "ret", ![p].ret = ctx[p].res]
    /\ UNCHANGED ring_buffer
    /\ UNCHANGED queue

(***********************  snprintf and sprintf  ****************************)
\* if (!dst) return -1; if (!mutex_trylock(&rb_lock)) return -1;
BufferEnter(p, fn, fmt, dst, len) ==
    /\ MayEnter(p, fn)
    /\ IF ~dst
       THEN /\ rb_lock' = rb_lock
            /\ ctx' = [ctx EXCEPT ![p] = [Entered(p, fn, fmt, dst, len)
                                           EXCEPT !.pc = "ret", !.ret = -1]]
       ELSE IF mutex_trylock(rb_lock)
       THEN /\ rb_lock' = mutex_taken
            /\ ctx' = [ctx EXCEPT ![p] = [Entered(p, fn, fmt, dst, len)
                                           EXCEPT !.pc = "print"]]
       ELSE /\ rb_lock' = rb_lock
            /\ ctx' = Refused(p, Entered(p, fn, fmt, dst, len))
    /\ UNCHANGED ring_buffer
    /\ UNCHANGED queue

\* memcpy(dst, &(ring_buffer.buf[ring_buffer.end - sizew]), n); dst[n] = '\0';
\* byte k of the source, read where the 32-bit index arithmetic points
SourceByte(rb, sizew, k, garbage) ==
    LET idx == ToInt(ToSize(rb.end - sizew + k))
    IN  IF idx >= 0 /\ idx < BUF_SIZE THEN rb.buf[idx] ELSE garbage

Captured(rb, sizew, n, old, garbage) ==
    [k \in 0..(DstCap - 1) |->
        IF k < n THEN SourceByte(rb, sizew, k, garbage)
        ELSE IF k = n THEN NUL
        ELSE old[k]]

\* the copy of n bytes and the terminator; a copy that leaves the
\* destination's storage may fault
CopyStep(p, n) ==
    \E garbage \in Garbage :
        LET done == [ctx[p] EXCEPT
                        !.to_copy = n,
                        !.dstbuf = Captured(ring_buffer, ToSize(ctx[p].res), n,
                                            ctx[p].dstbuf, garbage),
                        !.dsthi = n + 1]
        IN  \/ ctx' = [ctx EXCEPT ![p] = [done EXCEPT !.pc = "rewind"]]
            \/ /\ n >= DstCap
               /\ ctx' = [ctx EXCEPT ![p] = [done EXCEPT !.pc = "fault"]]

snprintf_enter(p, dst, len, fmt) == BufferEnter(p, "snprintf", fmt, dst, len)

snprintf_print(p) ==
    /\ At_(p, "snprintf", "print")
    /\ PrintStep(p, "copy")
    /\ UNCHANGED rb_lock
    /\ UNCHANGED queue

\* to_copy of snprintf()
snprintf_to_copy(sizew, len) == IF sizew >= len THEN ToSize(len - 1) ELSE sizew

snprintf_copy(p) ==
    /\ At_(p, "snprintf", "copy")
    /\ CopyStep(p, snprintf_to_copy(ToSize(ctx[p].res), ctx[p].len))
    /\ UNCHANGED <<ring_buffer, rb_lock>>
    /\ UNCHANGED queue

snprintf_rewind(p) ==
    /\ At_(p, "snprintf", "rewind")
    /\ ring_buffer' = ring_buffer_rewind(ring_buffer, ToSize(ctx[p].res))
    /\ ctx' = [ctx EXCEPT ![p].pc = "unlock"]
    /\ UNCHANGED rb_lock
    /\ UNCHANGED queue

\* snprintf() returning without mutex_unlock()
snprintf_return_locked(p) ==
    /\ At_(p, "snprintf", "unlock")
    /\ ctx' = [ctx EXCEPT ![p].pc = "ret", ![p].ret = ToInt(ctx[p].to_copy)]
    /\ UNCHANGED <<ring_buffer, rb_lock>>
    /\ UNCHANGED queue

snprintf_unlock(p) ==
    /\ At_(p, "snprintf", "unlock")
    /\ rb_lock' = mutex_unlock
    /\ ctx' = [ctx EXCEPT ![p].pc = "ret", ![p].ret = ToInt(ctx[p].to_copy)]
    /\ UNCHANGED ring_buffer
    /\ UNCHANGED queue

sprintf_enter(p, dst, fmt) == BufferEnter(p, "sprintf", fmt, dst, DstCap)

sprintf_print(p) ==
    /\ At_(p, "sprintf", "print")
    /\ PrintStep(p, "copy")
    /\ UNCHANGED rb_lock
    /\ UNCHANGED queue

sprintf_copy(p) ==
    /\ At_(p, "sprintf", "copy")
    /\ CopyStep(p, ToSize(ctx[p].res))
    /\ UNCHANGED <<ring_buffer, rb_lock>>
    /\ UNCHANGED queue

sprintf_rewind(p) ==
    /\ At_(p, "sprintf", "rewind")
    /\ ring_buffer' = ring_buffer_rewind(ring_buffer, ToSize(ctx[p].res))
    /\ ctx' = [ctx EXCEPT ![p].pc = "unlock"]
    /\ UNCHANGED rb_lock
    /\ UNCHANGED queue

sprintf_unlock(p) ==
    /\ At_(p, "sprintf", "unlock")
    /\ rb_lock' = mutex_unlock
    /\ ctx' = [ctx EXCEPT ![p].pc = "ret", ![p].ret = ToInt(ToSize(ctx[p].res))]
    /\ UNCHANGED ring_buffer
    /\ UNCHANGED queue

(**********************  aprintf and aprintf_flush  ************************)
\* aprintf() going on when mutex_trylock() fails
aprintf_enter_unchecked(p, fmt) ==
    /\ MayEnter(p, "aprintf")
    /\ rb_lock' = mutex_taken
    /\ ctx' = [ctx EXCEPT ![p] = [Entered(p, "aprintf", fmt, FALSE, 0)
                                   EXCEPT !.pc = "print"]]
    /\ UNCHANGED ring_buffer
    /\ UNCHANGED queue

aprintf_enter(p, fmt) ==
    /\ MayEnter(p, "aprintf")
    /\ IF mutex_trylock(rb_lock)
       THEN /\ rb_lock' = mutex_taken
            /\ ctx' = [ctx EXCEPT ![p] = [Entered(p, "aprintf", fmt, FALSE, 0)
                                           EXCEPT !.pc = "print"]]
       ELSE /\ rb_lock' = rb_lock
            /\ ctx' = Refused(p, Entered(p, "aprintf", fmt, FALSE, 0))
    /\ UNCHANGED ring_buffer
    /\ UNCHANGED queue

aprintf_print(p) ==
    /\ At_(p, "aprintf", "print")
    /\ PrintStep(p, "unlock")
    /\ UNCHANGED rb_lock
    /\ UNCHANGED queue

aprintf_unlock(p) ==
    /\ At_(p, "aprintf", "unlock")
    /\ rb_lock' = mutex_unlock
    /\ ctx' = [ctx EXCEPT ![p].pc = "ret", ![p].ret = ctx[p].res]
    /\ UNCHANGED ring_buffer
    /\ UNCHANGED queue

aprintf_flush_enter(p) ==
    /\ MayEnter(p, "aprintf_flush")
    /\ IF mutex_trylock(rb_lock)
       THEN /\ rb_lock' = mutex_taken
            /\ ctx' = [ctx EXCEPT ![p] = [Entered(p, "aprintf_flush", 0, FALSE, 0)
                                           EXCEPT !.pc = "drain1"]]
       ELSE /\ rb_lock' = rb_lock
            /\ ctx' = Refused(p, Entered(p, "aprintf_flush", 0, FALSE, 0))
    /\ UNCHANGED ring_buffer
    /\ UNCHANGED queue

aprintf_flush_drain(p) ==
    /\ At_(p, "aprintf_flush", "drain1")
    /\ ring_buffer' = print_and_reset_buffer(ring_buffer)
    /\ ctx' = [ctx EXCEPT ![p].pc = "unlock",
                          ![p].sink = ctx[p].sink \o SysLogCalls(ring_buffer)]
    /\ UNCHANGED rb_lock
    /\ UNCHANGED queue

aprintf_flush_unlock(p) ==
    /\ At_(p, "aprintf_flush", "unlock")
    /\ rb_lock' = mutex_unlock
    /\ ctx' = [ctx EXCEPT ![p].pc = "ret", ![p].ret = 0]
    /\ UNCHANGED ring_buffer
    /\ UNCHANGED queue

\* the caller has the result: the context is out of the call
Return(p) ==
    /\ ctx[p].pc = "ret"
    /\ ctx' = [ctx EXCEPT ![p] = Idle]
    /\ UNCHANGED <<ring_buffer, rb_lock>>
    /\ UNCHANGED queue

(************  the ring buffer operations, called one by one  **************)
\* the characters written
Chars == {Ord("a"), Ord("b")}
\* the longest run of ring_buffer_write_char() calls followed
RunMax == BUF_MAX + 1
\* s without its last n elements
DropLast(s, n) == SubSeq(s, 1, IF n < Len(s) THEN Len(s) - n ELSE 0)

\* the record of the operation just made.  Kept for the properties: live,
\* the characters accepted by ring_buffer_write_char() and neither drained
\* nor rewound since, and was, the same before the operation; run, the
\* number of consecutive ring_buffer_write_char() calls, and pre, the ring
\* buffer before the first of them; over, that since the last drain (or
\* before this one) a rewind asked for more characters than were live
Operation(fn, live, sink, len, ret) ==
    LET last == ctx["main"]
        writing == last.fn = "write_char"
    IN  [Idle EXCEPT !.fn = fn, !.len = len, !.ret = ret, !.sink = sink,
                     !.pre = IF writing THEN last.pre ELSE ring_buffer,
                     !.run = IF fn = "write_char"
                             THEN (IF writing THEN last.run + 1 ELSE 1)
                             ELSE (IF fn = "rewind" /\ writing THEN last.run ELSE 0),
                     !.was = last.live, !.live = live,
                     !.over = \/ fn = "rewind" /\ ret > Len(last.live)
                              \/ last.fn # "drain" /\ last.over]

\* ring_buffer_write_char(c)
write_char(c) ==
    /\ ctx["main"].run < RunMax \/ ctx["main"].fn # "write_char"
    /\ ring_buffer' = ring_buffer_write_char(ring_buffer, c)
    /\ ctx' = [ctx EXCEPT !["main"] =
                  Operation("write_char",
                            IF ring_buffer.full THEN ctx["main"].live
                            ELSE Append(ctx["main"].live, c),
                            << >>, 0, 0)]
    /\ UNCHANGED rb_lock
    /\ UNCHANGED queue

\* ring_buffer_rewind(len)
rewind(len) ==
    /\ ring_buffer' = ring_buffer_rewind(ring_buffer, len)
    /\ ctx' = [ctx EXCEPT !["main"] =
                  Operation("rewind",
                            DropLast(ctx["main"].live, ring_buffer_rewind_ret(len)),
                            << >>, len, ring_buffer_rewind_ret(len))]
    /\ UNCHANGED rb_lock
    /\ UNCHANGED queue

\* print_and_reset_buffer()
drain ==
    /\ ring_buffer' = print_and_reset_buffer(ring_buffer)
    /\ ctx' = [ctx EXCEPT !["main"] =
                  Operation("drain", << >>, SysLogCalls(ring_buffer), 0, 0)]
    /\ UNCHANGED rb_lock
    /\ UNCHANGED queue

(***************  the queue of src/embed/queue.c  **************************)
\* the nodes wmalloc() can give
FreeNodes == {k \in 1..NodeMax : ~queue.node[k].used}
\* p may call the queue: it is not in a call, and no call is just returning
MayCall(p) ==
    /\ Runs(p)
    /\ ctx[p].pc = "idle"
    /\ \A other \in Contexts : ctx[other].pc # "ret"
\* the queue call of context p as it is entered.  Kept for the properties:
\* q, the queue the call finds
QueueCall(fn, data) == [Idle EXCEPT !.fn = fn, !.data = data, !.q = queue]
\* return err;
QueueReturn(p, call, err) ==
    ctx' = [ctx EXCEPT ![p] = [call EXCEPT !.pc = "ret", !.err = err]]

\* queue_enqueue(q, data) up to wmalloc(): q is FALSE for a NULL q, data is
\* 0 for a NULL data
queue_enqueue_enter(p, q, data) ==
    /\ MayCall(p)
    /\ IF ~q \/ data = 0
       THEN QueueReturn(p, QueueCall("queue_enqueue", data), "MBED_ERROR_INVPARAM")
       ELSE IF queue.size = queue.max
       THEN QueueReturn(p, QueueCall("queue_enqueue", data), "MBED_ERROR_NOMEM")
       ELSE ctx' = [ctx EXCEPT ![p] = [QueueCall("queue_enqueue", data)
                                        EXCEPT !.pc = "wmalloc"]]
    /\ UNCHANGED <<ring_buffer, rb_lock, queue>>

\* wmalloc(&n, sizeof(struct node), ALLOC_NORMAL): fails when no node is left
queue_enqueue_wmalloc(p) ==
    /\ At_(p, "queue_enqueue", "wmalloc")
    /\ IF FreeNodes = {}
       THEN /\ QueueReturn(p, ctx[p], "MBED_ERROR_NOMEM")
            /\ UNCHANGED queue
       ELSE LET n == CHOOSE k \in FreeNodes : \A j \in FreeNodes : k <= j
            IN  /\ queue' = [queue EXCEPT !.node[n].used = TRUE]
                /\ ctx' = [ctx EXCEPT ![p].n = n, ![p].pc = "trylock"]
    /\ UNCHANGED <<ring_buffer, rb_lock>>

\* if (!mutex_trylock(&q->lock)) return MBED_ERROR_BUSY;
queue_enqueue_trylock(p) ==
    /\ At_(p, "queue_enqueue", "trylock")
    /\ IF mutex_trylock(queue.lock)
       THEN /\ queue' = [queue EXCEPT !.lock = mutex_taken]
            /\ ctx' = [ctx EXCEPT ![p].pc = "link"]
       ELSE /\ QueueReturn(p, ctx[p], "MBED_ERROR_BUSY")
            /\ UNCHANGED queue
    /\ UNCHANGED <<ring_buffer, rb_lock>>

\* n->next = q->head; ... q->head = n; ... q->size++;
queue_enqueue_link(p) ==
    /\ At_(p, "queue_enqueue", "link")
    /\ LET n == ctx[p].n
           head == queue.head
           linked == [queue.node EXCEPT ![n] = [next |-> head, prev |-> 0,
                                                data |-> ctx[p].data, used |-> TRUE]]
       IN  queue' = [queue EXCEPT
                        !.node = IF head # 0 THEN [linked EXCEPT ![head].prev = n]
                                 ELSE linked,
                        !.head = n,
                        !.tail = IF queue.tail = 0 THEN n ELSE queue.tail,
                        !.size = queue.size + 1,
                        !.order = Append(queue.order, ctx[p].data)]
    /\ ctx' = [ctx EXCEPT ![p].pc = "unlock"]
    /\ UNCHANGED <<ring_buffer, rb_lock>>

queue_enqueue_unlock(p) ==
    /\ At_(p, "queue_enqueue", "unlock")
    /\ queue' = [queue EXCEPT !.lock = mutex_unlock]
    /\ QueueReturn(p, ctx[p], "MBED_ERROR_NONE")
    /\ UNCHANGED <<ring_buffer, rb_lock>>

\* the entry of queue_next_element() and queue_dequeue(): the sanitation
\* and the trylock; out is FALSE for a NULL result pointer
QueueEnter(p, fn, q, out, next) ==
    /\ MayCall(p)
    /\ IF ~q \/ ~out
       THEN /\ QueueReturn(p, QueueCall(fn, 0), "MBED_ERROR_INVPARAM")
            /\ UNCHANGED queue
       ELSE IF mutex_trylock(queue.lock)
       THEN /\ queue' = [queue EXCEPT !.lock = mutex_taken]
            /\ ctx' = [ctx EXCEPT ![p] = [QueueCall(fn, 0) EXCEPT !.pc = next]]
       ELSE /\ QueueReturn(p, QueueCall(fn, 0), "MBED_ERROR_BUSY")
            /\ UNCHANGED queue
    /\ UNCHANGED <<ring_buffer, rb_lock>>

queue_next_element_enter(p, q, next) ==
    QueueEnter(p, "queue_next_element", q, next, "read")

\* *next = q->tail->data, or NULL when the queue is empty
queue_next_element_read(p) ==
    /\ At_(p, "queue_next_element", "read")
    /\ queue' = [queue EXCEPT !.lock = mutex_unlock]
    /\ IF queue.size = 0
       THEN QueueReturn(p, [ctx[p] EXCEPT !.out = 0], "MBED_ERROR_NOSTORAGE")
       ELSE IF queue.tail = 0
       THEN ctx' = [ctx EXCEPT ![p].pc = "fault"]
       ELSE QueueReturn(p, [ctx[p] EXCEPT !.out = queue.node[queue.tail].data],
                        "MBED_ERROR_NONE")
    /\ UNCHANGED <<ring_buffer, rb_lock>>

queue_dequeue_enter(p, q, data) ==
    QueueEnter(p, "queue_dequeue", q, data, "unlink")

\* the body of queue_dequeue() under the lock, *data read from node `from'
Unlink(p, from) ==
    /\ At_(p, "queue_dequeue", "unlink")
    /\ IF queue.size = 0
       THEN /\ queue' = [queue EXCEPT !.lock = mutex_unlock]
            /\ QueueReturn(p, ctx[p], "MBED_ERROR_NOSTORAGE")
       ELSE IF queue.tail = 0
       THEN /\ ctx' = [ctx EXCEPT ![p].pc = "fault"]
            /\ UNCHANGED queue
       ELSE LET last == queue.tail
                prev == queue.node[last].prev
            IN  /\ queue' = [queue EXCEPT
                                !.node = IF prev # 0 THEN [@ EXCEPT ![prev].next = 0]
                                         ELSE @,
                                !.tail = prev,
                                !.head = IF last = queue.head THEN 0 ELSE @,
                                !.size = queue.size - 1,
                                !.order = IF @ = << >> THEN @ ELSE Tail(@)]
                /\ ctx' = [ctx EXCEPT ![p].n = last,
                                      ![p].out = queue.node[from].data,
                                      ![p].was = queue.order,
                                      ![p].pc = "unlock"]
    /\ UNCHANGED <<ring_buffer, rb_lock>>

\* queue_dequeue() handing out the data of the head
queue_dequeue_unlink_head(p) == Unlink(p, queue.head)

\* struct node *last = q->tail; *data = last->data; ... q->size--;
queue_dequeue_unlink(p) == Unlink(p, queue.tail)

queue_dequeue_unlock(p) ==
    /\ At_(p, "queue_dequeue", "unlock")
    /\ queue' = [queue EXCEPT !.lock = mutex_unlock]
    /\ ctx' = [ctx EXCEPT ![p].pc = "wfree"]
    /\ UNCHANGED <<ring_buffer, rb_lock>>

\* wfree(&last)
queue_dequeue_wfree(p) ==
    /\ At_(p, "queue_dequeue", "wfree")
    /\ queue' = [queue EXCEPT !.node[ctx[p].n] = FreeNode]
    /\ QueueReturn(p, ctx[p], "MBED_ERROR_NONE")
    /\ UNCHANGED <<ring_buffer, rb_lock>>

\* one step of context p on the queue
QueueStep(p) ==
    \/ \E q \in BOOLEAN, data \in 0..DataMax : queue_enqueue_enter(p, q, data)
    \/ queue_enqueue_wmalloc(p)
    \/ queue_enqueue_trylock(p)
    \/ queue_enqueue_link(p)
    \/ queue_enqueue_unlock(p)
    \/ \E q \in BOOLEAN, next \in BOOLEAN : queue_next_element_enter(p, q, next)
    \/ queue_next_element_read(p)
    \/ \E q \in BOOLEAN, data \in BOOLEAN : queue_dequeue_enter(p, q, data)
    \/ queue_dequeue_unlink(p)
    \/ queue_dequeue_unlock(p)
    \/ queue_dequeue_wfree(p)
    \/ Return(p)

\* one step of context p, its calls drawing their arguments from the sets
Step(p, fmts, dsts, lens) ==
    \/ \E fmt \in fmts : printf_enter(p, fmt)
    \/ printf_mutex_lock(p)
    \/ printf_drain_pending(p)
    \/ printf_print(p)
    \/ printf_drain(p)
    \/ printf_unlock(p)
    \/ \E dst \in dsts, len \in lens, fmt \in fmts : snprintf_enter(p, dst, len, fmt)
    \/ snprintf_print(p)
    \/ snprintf_copy(p)
    \/ snprintf_rewind(p)
    \/ snprintf_unlock(p)
    \/ \E dst \in dsts, fmt \in fmts : sprintf_enter(p, dst, fmt)
    \/ sprintf_print(p)
    \/ sprintf_copy(p)
    \/ sprintf_rewind(p)
    \/ sprintf_unlock(p)
    \/ \E fmt \in fmts : aprintf_enter(p, fmt)
    \/ aprintf_print(p)
    \/ aprintf_unlock(p)
    \/ aprintf_flush_enter(p)
    \/ aprintf_flush_drain(p)
    \/ aprintf_flush_unlock(p)
    \/ Return(p)

\* a step of a call in progress
Proceed(p) == Step(p, {}, {}, {})

\* the main thread and the handlers, on the calls that contend for rb_lock
ContendingFmts == {1, 2, 4}
Next == \E p \in Contexts : Step(p, ContendingFmts, {TRUE}, {DstCap})

\* the main thread alone, on every call
MainNext == Step("main", FmtArgs, BOOLEAN, 0..DstCap)

\* the main thread printing one directive at a time
DirectiveNext ==
    \/ \E fmt \in DirectiveFmts : printf_enter("main", fmt)
    \/ printf_mutex_lock("main")
    \/ printf_drain_pending("main")
    \/ printf_print("main")
    \/ printf_drain("main")
    \/ printf_unlock("main")
    \/ Return("main")

\* the ring buffer operations in any order
RingNext ==
    \/ \E c \in Chars : write_char(c)
    \/ \E len \in 0..(BUF_MAX + 1) : rewind(len)
    \/ drain

\* the main thread accumulating with aprintf() and flushing with
\* aprintf_flush() or printf()
AccumulateNext ==
    \/ \E fmt \in 1..Len(Templates) : aprintf_enter("main", fmt)
    \/ aprintf_print("main")
    \/ aprintf_unlock("main")
    \/ aprintf_flush_enter("main")
    \/ aprintf_flush_drain("main")
    \/ aprintf_flush_unlock("main")
    \/ \E fmt \in 1..Len(Templates) : printf_enter("main", fmt)
    \/ printf_mutex_lock("main")
    \/ printf_drain_pending("main")
    \/ printf_print("main")
    \/ printf_drain("main")
    \/ printf_unlock("main")
    \/ Return("main")

\* the main thread and one handler, on calls that succeed, fail to parse,
\* have a NULL argument or find the lock taken
ReturningFmts == {0, 1, 4}
ReturningNext ==
    \E p \in {"main", "isr1"} : Step(p, ReturningFmts, BOOLEAN, {DstCap})

\* the main thread printing the templates that end inside a directive
EndingNext ==
    \/ \E fmt \in EndingFmts : printf_enter("main", fmt)
    \/ printf_mutex_lock("main")
    \/ printf_drain_pending("main")
    \/ printf_print("main")
    \/ printf_drain("main")
    \/ printf_unlock("main")
    \/ Return("main")

\* the task and a handler on the queue
QueueNext == \E p \in {"main", "isr1"} : QueueStep(p)

Spec == Init /\ [][Next]_vars

QueueSpec == Init /\ [][QueueNext]_vars

EndingSpec == Init /\ [][EndingNext]_vars

ReturningSpec == Init /\ [][ReturningNext]_vars

AccumulateSpec == Init /\ [][AccumulateNext]_vars

RingSpec == Init /\ [][RingNext]_vars

DirectiveSpec == Init /\ [][DirectiveNext]_vars

MainSpec == Init /\ [][MainNext]_vars

(***************************************************************************)
(* Properties.                                                             *)
(***************************************************************************)
Holders == {p \in Contexts : Holds(p)}
NonBlocking == {"snprintf", "sprintf", "aprintf", "aprintf_flush"}

\* C1: in every reachable state at most one caller holds rb_lock, and every
\* step that changes the ring buffer (start, end, full, storage) is a step
\* of the one caller that holds the lock, taken while the lock is taken.
C1_LockGuardsRingBuffer ==
    /\ [](Cardinality(Holders) <= 1)
    /\ [][ring_buffer' # ring_buffer =>
            \E p \in Contexts :
                /\ Holders = {p}
                /\ rb_lock = mutex_taken
                /\ ctx'[p] # ctx[p]
                /\ \A q \in Contexts \ {p} : ctx'[q] = ctx[q]]_vars

\* C1 witness: the main thread holds the lock and has written to the ring
\* buffer, and a handler that preempted it was refused the lock
C1_Witness ==
    /\ ctx["main"].pc = "unlock"
    /\ ctx["main"].fn = "aprintf"
    /\ ring_buffer # ctx["main"].pre
    /\ ctx["isr1"].pc = "ret"
    /\ ctx["isr1"].busy

(***************************************************************************)
(* What a template and its arguments format to, by the directive table of  *)
(* the specification (section 6), for the directives without flags.        *)
(***************************************************************************)
RECURSIVE Decimal(_)
Decimal(v) ==
    IF v < 0 THEN <<Ord("-")>> \o Decimal(-v)
    ELSE IF v < 10 THEN <<Ord("0") + v>>
    ELSE Decimal(v \div 10) \o <<Ord("0") + (v % 10)>>

Plain == {Ord("%"), Ord("d"), Ord("i"), Ord("s"), Ord("c")}

\* every directive of the template is one of %% %d %i %s %c
RECURSIVE WellFormed(_, _)
WellFormed(mem, i) ==
    IF At(mem, i) = NUL THEN TRUE
    ELSE IF At(mem, i) # Ord("%") THEN WellFormed(mem, i + 1)
    ELSE At(mem, i + 1) \in Plain /\ WellFormed(mem, i + 2)

RECURSIVE Formatted(_, _, _)
Formatted(mem, i, args) ==
    LET c == At(mem, i)
        d == At(mem, i + 1)
    IN  IF c = NUL THEN << >>
        ELSE IF c # Ord("%") THEN <<c>> \o Formatted(mem, i + 1, args)
        ELSE IF d = Ord("%") THEN <<d>> \o Formatted(mem, i + 2, args)
        ELSE IF d = Ord("s") THEN Head(args) \o Formatted(mem, i + 2, Tail(args))
        ELSE IF d = Ord("c") THEN <<Head(args)>> \o Formatted(mem, i + 2, Tail(args))
        ELSE Decimal(Head(args)) \o Formatted(mem, i + 2, Tail(args))

\* the output expected of template number fmt
Expected(fmt) == Formatted(Templates[fmt].mem, 0, Templates[fmt].args)
Valid(fmt) == fmt # 0 /\ WellFormed(Templates[fmt].mem, 0)

\* the characters the lexer has a case for
Handled == {Ord("%"), Ord("0"), Ord("d"), Ord("i"), Ord("l"), Ord("h"), Ord("u"),
            Ord("p"), Ord("x"), Ord("o"), Ord("s"), Ord("c")}
\* the literal characters before the first '%' of a template
RECURSIVE LiteralPrefix(_, _)
LiteralPrefix(mem, i) ==
    IF At(mem, i) = NUL \/ At(mem, i) = Ord("%") THEN << >>
    ELSE <<At(mem, i)>> \o LiteralPrefix(mem, i + 1)
\* the first directive of the template has an unrecognized conversion character
UnknownConversion(fmt) ==
    /\ fmt # 0
    /\ LET mem == Templates[fmt].mem
           k == Len(LiteralPrefix(mem, 0))
       IN  At(mem, k) = Ord("%") /\ At(mem, k + 1) # NUL /\ At(mem, k + 1) \notin Handled

\* the bytes the ring buffer holds, oldest first
LiveCount(rb) == ((rb.end - rb.start) % BUF_MAX) + (IF rb.full THEN 1 ELSE 0)
Live(rb) == [k \in 1..LiveCount(rb) |-> rb.buf[(rb.start + k - 1) % BUF_MAX]]
\* the number of characters the ring buffer still accepts
Room(rb) == IF rb.full THEN 0 ELSE BUF_MAX - LiveCount(rb)
FirstN(s, n) == SubSeq(s, 1, IF n < Len(s) THEN n ELSE Len(s))
\* the destination's first n bytes
DstBytes(p, n) == [k \in 1..n |-> ctx[p].dstbuf[k - 1]]

\* context p has just run print(): the ring buffer is as print() left it
JustPrinted(p) ==
    \/ ctx[p].fn = "printf" /\ ctx[p].pc = "drain2"
    \/ ctx[p].fn \in {"snprintf", "sprintf"} /\ ctx[p].pc = "copy"
    \/ ctx[p].fn = "aprintf" /\ ctx[p].pc = "unlock"
\* the ring buffer print() started from
BeforePrint(p) == IF ctx[p].fn = "printf" THEN init_ring_buffer ELSE ctx[p].pre
\* p's call took the lock and has returned
Returned(p) == ctx[p].pc = "ret" /\ ~ctx[p].busy
BufferCall(p) == ctx[p].fn \in {"snprintf", "sprintf"} /\ ctx[p].dst

\* C2: when two non-blocking calls contend for the lock, the one refused
\* returns -1 with the ring buffer and its destination untouched while
\* exactly one other call holds the lock, and the call that holds it
\* returns with its bytes correct: appended to the ring buffer (aprintf),
\* or in its destination, terminated (sprintf, snprintf with room).
C2_ContendingCalls ==
    \A p \in Contexts :
        /\ (ctx[p].pc = "ret" /\ ctx[p].busy) =>
              /\ ctx[p].fn \in NonBlocking
              /\ ctx[p].ret = -1
              /\ Cardinality(Holders \ {p}) = 1
              /\ ring_buffer = ctx[p].pre
              /\ ctx[p].dsthi = 0
        /\ (Returned(p) /\ ctx[p].contended /\ Valid(ctx[p].fmt)) =>
              /\ ctx[p].fn = "aprintf" =>
                    Live(ring_buffer)
                        = Live(ctx[p].pre) \o FirstN(Expected(ctx[p].fmt), Room(ctx[p].pre))
              /\ (BufferCall(p) /\ ctx[p].len > Len(Expected(ctx[p].fmt))) =>
                    DstBytes(p, Len(Expected(ctx[p].fmt)) + 1)
                        = Expected(ctx[p].fmt) \o <<NUL>>

\* C3: a handler never waits for the lock, and a call in progress can
\* always take its next step, so that it returns: no state with a call in
\* progress is stuck.
C3_NoCallStuck ==
    /\ \A p \in Contexts \ {"main"} : ctx[p].pc # "lock"
    /\ (\E p \in Contexts : ctx[p].pc # "idle") => ENABLED (\E p \in Contexts : Proceed(p))

\* C4: a successful snprintf or sprintf leaves the ring buffer (start, end,
\* full, storage) as it found it.
C4_BufferCallRestores ==
    \A p \in Contexts :
        (Returned(p) /\ BufferCall(p) /\ Valid(ctx[p].fmt) /\ ctx[p].ret >= 0)
            => ring_buffer = ctx[p].pre

\* C5: after a successful sprintf, and snprintf with a capacity larger than
\* the result, the destination holds the characters the template formats
\* to, then one terminator, and the call returns their number.
C5_DestinationHoldsOutput ==
    \A p \in Contexts :
        (Returned(p) /\ BufferCall(p) /\ Valid(ctx[p].fmt)
                     /\ ctx[p].len > Len(Expected(ctx[p].fmt)))
            => /\ ctx[p].ret = Len(Expected(ctx[p].fmt))
               /\ DstBytes(p, ctx[p].ret + 1) = Expected(ctx[p].fmt) \o <<NUL>>

\* C6: for every capacity len, 0 and 1 included, snprintf touches no
\* destination index >= len, copies at most len - 1 bytes before the one
\* terminator, and returns the number of bytes copied.
C6_SnprintfStaysInBounds ==
    \A p \in Contexts :
        (ctx[p].fn = "snprintf" /\ ctx[p].dst /\ ctx[p].fmt # 0) =>
            /\ ctx[p].dsthi <= ctx[p].len
            /\ Returned(p) =>
                  /\ ctx[p].ret = ctx[p].dsthi - 1
                  /\ ctx[p].dstbuf[ctx[p].ret] = NUL

\* C7: print() returns the number of characters it produced (literal bytes
\* and the output of every directive), not the characters it scanned.
C7_PrintReturnsProduced ==
    \A p \in Contexts :
        (JustPrinted(p) /\ Valid(ctx[p].fmt))
            => ctx[p].res = Len(Expected(ctx[p].fmt))

\* C8: with a malformed directive in the template, printf, aprintf,
\* snprintf and sprintf return a negative value, and snprintf and sprintf
\* copy nothing to the destination.
C8_MalformedIsNegative ==
    \A p \in Contexts :
        (/\ ctx[p].fmt # 0
         /\ ~WellFormed(Templates[ctx[p].fmt].mem, 0)
         /\ ctx[p].fn = "snprintf" => ctx[p].len >= 1) =>
            /\ Returned(p) /\ (ctx[p].dst \/ ctx[p].fn \in {"printf", "aprintf"})
                  => ctx[p].ret < 0
            /\ ctx[p].dsthi = 0

\* C9: a template whose directive has an unrecognized conversion character
\* makes print() fail with -1, the lexer reporting 0 consumed characters,
\* and the literal bytes before the directive stay in the ring buffer:
\* its content is the content before the call followed by those bytes (as
\* many as the buffer accepted).
C9_UnknownConversionNoRollback ==
    \A p \in Contexts :
        (JustPrinted(p) /\ UnknownConversion(ctx[p].fmt)) =>
            /\ ctx[p].res = -1
            /\ ctx[p].consumed = 0
            /\ Live(ring_buffer)
                  = Live(BeforePrint(p))
                      \o FirstN(LiteralPrefix(Templates[ctx[p].fmt].mem, 0),
                                Room(BeforePrint(p)))

\* C9 witness: print() has failed on "a%z" and the 'a' is in the ring buffer
C9_Witness ==
    \E p \in Contexts :
        /\ JustPrinted(p)
        /\ UnknownConversion(ctx[p].fmt)
        /\ ctx[p].res = -1
        /\ Live(ring_buffer) = Live(BeforePrint(p)) \o Str(<<"a">>)
        /\ Len(Live(BeforePrint(p))) > 0

\* C10: a call with a NULL fmt (printf, aprintf, snprintf, sprintf) or a NULL
\* dst (snprintf, sprintf) never reads through the NULL pointer and returns
\* -1 with the ring buffer as the call found it and the lock free.
C10_NullArgumentRejected ==
    \A p \in Contexts :
        (\/ ctx[p].fmt = 0 /\ ctx[p].fn \in {"printf", "aprintf", "snprintf", "sprintf"}
         \/ ~ctx[p].dst /\ ctx[p].fn \in {"snprintf", "sprintf"}) =>
            /\ ~ctx[p].nullread
            /\ ctx[p].pc = "ret" =>
                  /\ ctx[p].ret = -1
                  /\ ctx[p].busy \/ ring_buffer = ctx[p].pre
                  /\ ctx[p].busy \/ rb_lock = mutex_unlock

(***************************************************************************)
(* The numeric directives, by section 4.2 and the table of section 6.      *)
(***************************************************************************)
\* the digits of v >= 0 in base, most significant first
RECURSIVE InBase(_, _)
InBase(v, base) ==
    LET digit == IF v % base < 10 THEN Ord("0") + (v % base)
                 ELSE Ord("a") + ((v % base) - 10)
    IN  IF v < base THEN <<digit>> ELSE InBase(v \div base, base) \o <<digit>>
Zeros(n) == [k \in 1..n |-> Ord("0")]
\* v >= 0 zero-padded to the width of the flag
PaddedNumber(flag, v, base) ==
    LET digits == InBase(v, base)
    IN  IF flag.zero /\ flag.width > Len(digits)
        THEN Zeros(flag.width - Len(digits)) \o digits
        ELSE digits
\* print() has just run on the one-directive template of context p, from
\* an empty ring buffer
DirectivePrinted(p) == JustPrinted(p) /\ ctx[p].fmt \in DirectiveFmts
\* the ring buffer holds what it accepted of out
Holding(out) == Live(ring_buffer) = FirstN(out, BUF_MAX)

\* C13: for d, i, u, x and o without length modifier and a value >= 0, the
\* output is the value's digits in the conversion's base, all of them,
\* preceded by max(0, width - digit_count) characters '0' when the zero flag
\* and a nonzero width were parsed, and by none otherwise.
C13_ZeroPadding ==
    \A p \in Contexts :
        LET t == Template(ctx[p].fmt)
        IN  (DirectivePrinted(p) /\ t.mod = << >> /\ t.val >= 0) =>
                /\ ctx[p].res >= 0
                /\ Holding(PaddedNumber(t.flag, t.val, t.conv.base))

\* C13 witness: "%03x" with 42 has produced "02a"
C13_Witness ==
    /\ DirectivePrinted("main")
    /\ Template(ctx["main"].fmt).mem = Str(<<"%", "0", "3", "x">>)
    /\ Template(ctx["main"].fmt).val = 42
    /\ Live(ring_buffer) = Str(<<"0", "2", "a">>)

\* C14: a length modifier and the conversion after it are one directive:
\* for l, ll, h, hh followed by d, i, u, x or o and a value in 0..255 the
\* output is the value in the base of the conversion, and no character of
\* the directive is emitted as a literal.
C14_ModifierThenConversion ==
    \A p \in Contexts :
        LET t == Template(ctx[p].fmt)
        IN  (DirectivePrinted(p) /\ t.mod # << >> /\ t.val \in 0..255) =>
                /\ ctx[p].res >= 0
                /\ Holding(PaddedNumber(t.flag, t.val, t.conv.base))

\* C15: d and i print a signed decimal: for a value v < 0 (and no width) the
\* output is '-' followed by the decimal digits of |v|.
C15_SignedDecimal ==
    \A p \in Contexts :
        LET t == Template(ctx[p].fmt)
        IN  (/\ DirectivePrinted(p) /\ t.mod = << >> /\ t.flag.width = 0
             /\ t.conv.text \in {"d", "i"} /\ t.val < 0) =>
                Holding(<<Ord("-")>> \o InBase(-t.val, 10))

(***************************************************************************)
(* The ring buffer operations.                                             *)
(***************************************************************************)
\* the operation just made on the ring buffer
Did(fn) == ctx["main"].fn = fn
RECURSIVE Flatten(_)
Flatten(calls) == IF calls = << >> THEN << >> ELSE Head(calls) \o Flatten(Tail(calls))

\* C16: ring_buffer_write_char() on a full ring buffer discards the
\* character: start, end, full and every stored byte stay as they were;
\* the call is never refused, and the buffer never holds more than BUF_MAX
\* characters.
C16_WriteOnFullDiscards ==
    /\ [][(ring_buffer.full /\ ctx'["main"].fn = "write_char")
            => ring_buffer' = ring_buffer]_vars
    /\ [](\A c \in Chars :
            ENABLED (ring_buffer' = ring_buffer_write_char(ring_buffer, c)
                     /\ UNCHANGED <<rb_lock, ctx, queue>>))
    /\ [](Len(ctx["main"].live) <= BUF_MAX)

\* C16 witness: a character was written to a full ring buffer
C16_Witness ==
    /\ Did("write_char")
    /\ ring_buffer.full
    /\ ctx["main"].was = ctx["main"].live
    /\ Len(ctx["main"].live) = BUF_MAX

\* C17: while full is false, the number of characters accepted by
\* ring_buffer_write_char() and neither drained nor rewound is
\* (end - start) mod BUF_MAX.
C17_LiveCount ==
    ~ring_buffer.full =>
        Len(ctx["main"].live) = (ring_buffer.end - ring_buffer.start) % BUF_MAX

\* C18: while full is true (and no rewind went below the live characters),
\* all BUF_MAX slots hold accepted characters not drained yet, and
\* start = end.
C18_FullMeansSaturated ==
    (ring_buffer.full /\ ~ctx["main"].over) =>
        /\ Len(ctx["main"].live) = BUF_MAX
        /\ \A k \in 1..BUF_MAX :
              ring_buffer.buf[(ring_buffer.start + k - 1) % BUF_MAX] = ctx["main"].live[k]
        /\ ring_buffer.start = ring_buffer.end

\* C19: print_and_reset_buffer() calls sys_log() at most twice, and the
\* bytes it passes are, in order, the characters accepted since the last
\* drain and not rewound, also when the ring buffer is full (no rewind
\* having gone below the live characters).
C19_DrainDeliversLive ==
    (Did("drain") /\ ~ctx["main"].over) =>
        /\ Len(ctx["main"].sink) <= 2
        /\ Flatten(ctx["main"].sink) = ctx["main"].was

\* C20: n < BUF_MAX calls of ring_buffer_write_char() followed by
\* ring_buffer_rewind(n) leave start, end and full as they were before the
\* first call, also when the calls fill the buffer or characters are
\* discarded (no rewind having gone below the live characters).
C20_WriteThenRewind ==
    (/\ Did("rewind") /\ ctx["main"].len = ctx["main"].run
     /\ ctx["main"].len < BUF_MAX /\ ~ctx["main"].over) =>
        /\ ring_buffer.start = ctx["main"].pre.start
        /\ ring_buffer.end = ctx["main"].pre.end
        /\ ring_buffer.full = ctx["main"].pre.full

(***************************************************************************)
(* Accumulation and flush.                                                 *)
(***************************************************************************)
\* what print() produces on template fmt: its output, or the literal
\* characters before the directive that fails
Produced(fmt) ==
    IF Valid(fmt) THEN Expected(fmt) ELSE LiteralPrefix(Templates[fmt].mem, 0)
\* the outputs of the valid templates
Outputs == {Expected(fmt) : fmt \in {f \in 1..Len(Templates) : Valid(f)}}
\* the concatenations of at most n outputs that fit the ring buffer
RECURSIVE Concatenations(_)
Concatenations(n) ==
    IF n = 0 THEN { << >> }
    ELSE LET shorter == Concatenations(n - 1)
         IN  shorter \cup {s \o o : s \in shorter, o \in Outputs}
\* the ring buffer holds the whole output of successful aprintf() calls
Fits(rb) == Live(rb) \in {s \in Concatenations(BUF_MAX) : Len(s) <= BUF_MAX}

\* C11: printf() hands the log sink the bytes pending when it took the lock
\* before any byte it produces, then the bytes it produces before it
\* releases the lock, and returns with the ring buffer empty, print()
\* having succeeded or failed.
C11_PrintfDrainsInOrder ==
    \A p \in Contexts :
        (ctx[p].fn = "printf" /\ ctx[p].fmt \in 1..Len(Templates)) =>
            /\ ctx[p].pc \in {"print", "drain2"} =>
                  Flatten(ctx[p].sink) = Live(ctx[p].pre)
            /\ ctx[p].pc \in {"unlock", "ret"} =>
                  Flatten(ctx[p].sink)
                      = Live(ctx[p].pre) \o FirstN(Produced(ctx[p].fmt), BUF_MAX)
            /\ ctx[p].pc = "ret" => ring_buffer = init_ring_buffer

\* C12: aprintf() calls neither sys_log() nor the rewind: when the ring
\* buffer holds the outputs of successful aprintf() calls and the next
\* output fits, a successful aprintf() appends it; aprintf_flush() and
\* printf() then hand the sink exactly the accumulated outputs and leave
\* the ring buffer empty.
C12_AprintfAccumulates ==
    \A p \in Contexts :
        /\ (/\ Returned(p) /\ ctx[p].fn = "aprintf" /\ Valid(ctx[p].fmt)
             /\ Fits(ctx[p].pre)
             /\ Len(Live(ctx[p].pre)) + Len(Expected(ctx[p].fmt)) <= BUF_MAX) =>
                /\ ctx[p].sink = << >>
                /\ ctx[p].ret >= 0
                /\ Live(ring_buffer) = Live(ctx[p].pre) \o Expected(ctx[p].fmt)
        /\ (/\ \/ (ctx[p].fn = "aprintf_flush" /\ ctx[p].pc = "unlock")
                \/ (ctx[p].fn = "printf" /\ ctx[p].pc = "print")
             /\ Fits(ctx[p].pre)) =>
                /\ Flatten(ctx[p].sink) = Live(ctx[p].pre)
                /\ ring_buffer = init_ring_buffer

C22_LockReleasedOnReturn ==
    /\ \A p \in Contexts :
          (Returned(p) /\ (ctx[p].fn \in {"snprintf", "sprintf"} => ctx[p].dst))
              => rb_lock = mutex_unlock
    /\ (\A p \in Contexts : ctx[p].pc \in {"idle", "ret"}) => rb_lock = mutex_unlock
    /\ \A p \in Contexts :
          (ctx[p].pc = "ret" /\ ctx[p].busy) => (rb_lock = mutex_taken /\ Holders # {})

\* C22 witness: the handler's call was refused the lock, and the main
\* thread's call then returned from a parse error with the lock free
C22_Witness ==
    /\ Returned("main")
    /\ ctx["main"].contended
    /\ ctx["main"].fmt = 4
    /\ ctx["main"].ret < 0
    /\ rb_lock = mutex_unlock

\* C23: when snprintf and sprintf copy, the length they pass (print()'s
\* result as a size_t) is at most end, so that end - sizew does not
\* underflow, and the span [end - sizew, end) holds only bytes written by
\* this call: it starts at or after the end the call found.  For every
\* template, print() failing and the buffer becoming full included.
C23_CaptureSpanInBounds ==
    \A p \in Contexts :
        (BufferCall(p) /\ ctx[p].pc = "copy" /\ ctx[p].fmt # 0) =>
            /\ ToSize(ctx[p].res) <= ring_buffer.end
            /\ ring_buffer.end - ToSize(ctx[p].res) >= ctx[p].pre.end

\* C24: the cursor of print() never passes the terminator of the template:
\* it only grows, and when print() succeeds the value it ends with, which
\* print() returns, is at most the length of the template; also for a
\* template that ends inside a directive ("%", "%0", "%03").
C24_CursorWithinTemplate ==
    \A p \in Contexts :
        (JustPrinted(p) /\ ctx[p].fmt \in EndingFmts /\ ctx[p].res >= 0) =>
            ctx[p].res <= strlen(Template(ctx[p].fmt).mem)

(***************************************************************************)
(* The queue.                                                              *)
(***************************************************************************)
\* the nodes linked from node k on, following next
RECURSIVE Chain(_, _)
Chain(k, fuel) ==
    IF k = 0 \/ fuel = 0 THEN << >>
    ELSE <<k>> \o Chain(queue.node[k].next, fuel - 1)
\* the nodes from head to tail
Linked == Chain(queue.head, NodeMax)
\* what queue q holds: its fields and the links and data of its nodes,
\* the allocator's marks apart
Content(q) ==
    [head |-> q.head, tail |-> q.tail, max |-> q.max, size |-> q.size,
     lock |-> q.lock, order |-> q.order,
     node |-> [k \in 1..NodeMax |-> [q.node[k] EXCEPT !.used = TRUE]]]
\* context p has returned from fn with err
QueueReturned(p, fn, err) ==
    ctx[p].fn = fn /\ ctx[p].pc = "ret" /\ ctx[p].err = err

\* C25: whatever the interleaving of queue_enqueue and queue_dequeue calls
\* of the task and the handlers, size never exceeds the capacity given to
\* queue_create, and (outside the critical sections) size is the number of
\* nodes linked from head to tail.
C25_QueueSizeBounded ==
    /\ queue.size <= queue.max
    /\ queue.lock = mutex_unlock =>
          /\ queue.size = Len(Linked)
          /\ queue.tail = (IF Linked = << >> THEN 0 ELSE Linked[Len(Linked)])

\* C26: the queue is first-in first-out: a successful queue_dequeue returns
\* the data of the oldest successful queue_enqueue not dequeued yet;
\* queue_next_element returns that same data and leaves the queue as it
\* was; on an empty queue both return MBED_ERROR_NOSTORAGE and leave the
\* queue as it was.
C26_QueueIsFifo ==
    \A p \in Contexts :
        /\ (ctx[p].fn = "queue_dequeue" /\ ctx[p].pc \in {"unlock", "wfree"}) =>
              /\ ctx[p].was # << >>
              /\ ctx[p].out = Head(ctx[p].was)
              /\ ctx[p].pc = "unlock" => queue.order = Tail(ctx[p].was)
        /\ QueueReturned(p, "queue_dequeue", "MBED_ERROR_NONE") =>
              (ctx[p].q.size > 0 /\ ctx[p].out = Head(ctx[p].q.order))
        /\ QueueReturned(p, "queue_next_element", "MBED_ERROR_NONE") =>
              /\ ctx[p].q.size > 0
              /\ ctx[p].out = Head(queue.order)
              /\ Content(queue) = Content(ctx[p].q)
        /\ (\/ QueueReturned(p, "queue_dequeue", "MBED_ERROR_NOSTORAGE")
            \/ QueueReturned(p, "queue_next_element", "MBED_ERROR_NOSTORAGE")) =>
              /\ ctx[p].q.size = 0
              /\ ctx[p].q.order = << >>
              /\ Content(queue) = Content(ctx[p].q)

\* C26 witness: with 1 then 2 enqueued, queue_dequeue has returned 1
C26_Witness ==
    \E p \in Contexts :
        /\ QueueReturned(p, "queue_dequeue", "MBED_ERROR_NONE")
        /\ ctx[p].was = <<1, 2>>
        /\ ctx[p].out = 1
        /\ queue.order = <<2>>

=============================================================================
